---- MODULE Spec2Model ----
(***************************************************************************)
(* Model of the Rohde&Schwarz FSEB20 spectrum analyzer driver              *)
(* (src/RohdeSchwarz_FSEB20_spectrum_ana.py, class SpectrumAnaFSEB20) and   *)
(* of the phaselock beatnote monitor built on it                            *)
(* (src/examples/phaselock_beatnote_rsFSEB20_mon.py, class                  *)
(* PhaselockMonitorFSEB20).                                                 *)
(*                                                                          *)
(* Numbers.  Every number the program handles travels as decimal text or    *)
(* as a Python float.  A number is modelled in fixed point with three       *)
(* decimals, kept in two limbs so that 5 MHz in Hz and 1 mHz fit together   *)
(* in TLC's integers: [int, milli] stands for int + milli/1000 with         *)
(* 0 <= milli < 1000.  A text value is a record                             *)
(*     [isnum, int, milli, suffix]                                          *)
(* : "5MHz" is [TRUE, 5, 0, "MHz"], "250.0" is [TRUE, 250, 0, ""], "ON" is  *)
(* [FALSE, 0, 0, "ON"], and a malformed reply is [FALSE, 0, 0, "?"].        *)
(***************************************************************************)
EXTENDS Integers, Sequences, FiniteSets, TLC

VARIABLES
    pc,                   \* where the monitor's single thread is
    caller,               \* who called coarse_/narrow_on_beatnote: "start" or "loop"
    now,                  \* time.time(), in units of 10 microseconds
    pub_last_time,        \* self.pub_last_time, same units
    last_bn_counter_freq, \* start_loop's local of that name (MHz)
    bn_counter_freq,      \* start_loop's local of that name (MHz)
    spans,                \* narrow_on_beatnote's local: the ramp still to command
    instr,                \* the analyzer's settings [cf, span, rbw], in Hz
    exact,                \* TRUE: the analyzer reports what it was last commanded
    log,                  \* what the current poll cycle (or the start-up) has done
    closed,               \* the resources released so far
    returned,             \* what the latest direct call of a driver method returned
    polls,                \* history: the last two references start_loop polled
    lastPubAt,            \* history: clock at the latest publish call, -1 if none
    pubGap,               \* history: clock time between the two latest publish calls, -1 if fewer
    reacquired,           \* history: the loop re-acquired and has not finished narrowing since
    cycle                 \* history: the parity of the poll cycles begun on the relative clock

vars == <<pc, caller, now, pub_last_time, last_bn_counter_freq, bn_counter_freq,
          spans, instr, exact, log, closed, returned, polls, lastPubAt, pubGap,
          reacquired, cycle>>

----------------------------------------------------------------------------
(* Fixed-point numbers and text.                                           *)

Num(i, m) == [isnum |-> TRUE, int |-> i, milli |-> m, suffix |-> ""]

Word(s) == [isnum |-> FALSE, int |-> 0, milli |-> 0, suffix |-> s]

\* a + 'MHz' and the literals '5MHz', '10kHz', '3dB': text followed by a unit
WithSuffix(t, s) == [t EXCEPT !.suffix = s]

None == Word("")

Malformed == Word("?")

\* int + milli/1000 brought back to 0 <= milli < 1000
Norm(i, m) == Num(i + (m \div 1000), m % 1000)

AddMilli(x, d) == Norm(x.int, x.milli + d)

Abs(n) == IF n < 0 THEN -n ELSE n

Leq(a, b) == a.int < b.int \/ (a.int = b.int /\ a.milli <= b.milli)

Less(a, b) == Leq(a, b) /\ ~(a.int = b.int /\ a.milli = b.milli)

\* |a - b| > tol, tol in thousandths; the first disjunct keeps the product
\* below 2^31 and decides the comparison for every tol below 2*10^9
AbsDiffGt(a, b, tolMilli) ==
    \/ Abs(a.int - b.int) >= 2000000
    \/ Abs((a.int - b.int) * 1000 + (a.milli - b.milli)) > tolMilli

\* Python's float(text): defined on plain decimal text only
CanFloat(t) == t.isnum /\ t.suffix = ""

\* str(x) of a float: plain decimal text
Str(x) == Num(x.int, x.milli)

\* The value in base units of text carrying a unit suffix, as the analyzer
\* reads a command's argument
ToHz(t) ==
    IF t.suffix = "MHz" THEN Num(t.int * 1000000 + t.milli * 1000, 0)
    ELSE IF t.suffix = "kHz" THEN Num(t.int * 1000 + t.milli, 0)
    ELSE Num(t.int, t.milli)

----------------------------------------------------------------------------
(* Events: what the monitor does to its collaborators, in order.           *)

Ev(op, cmd, data, dur) == [op |-> op, cmd |-> cmd, data |-> data, dur |-> dur]

\* self.instr.write(command): the command header and its argument
WriteEv(cmd, arg) == Ev("write", cmd, <<arg>>, 0)

\* self.instr.query(command): the command and the reply it got
QueryEv(cmd, reply) == Ev("query", cmd, <<reply>>, 0)

\* time.sleep(d), d in units of 10 microseconds
SleepEv(why, d) == Ev("sleep", why, <<>>, d)

\* print(message)
SayEv(msg) == Ev("say", msg, <<>>, 0)

\* self.bnGrabber.read_on_demand()
FeedEv(bn) == Ev("feed", "read_on_demand", <<bn>>, 0)

\* self.publisher.publish_data(data)
PublishEv(data) == Ev("publish", "publish_data", data, 0)

----------------------------------------------------------------------------
(* The transport's reply to a query: the reply text and the line feed the   *)
(* analyzer ends it with.                                                   *)

Raw(t) == [body |-> t, eol |-> "\n"]

\* str.strip() of a raw reply
Strip(raw) == raw.body

(* What a call returns to its caller: the events it caused, the value it    *)
(* returned, and whether it raised instead of returning.                    *)

Result(events, ret, raised) == [events |-> events, ret |-> ret, raised |-> raised]

\* A setter: SpectrumAnaFSEB20.write(f"{header} {value}")
Setter(header, value) == Result(<<WriteEv(header, value)>>, None, FALSE)

\* A command without a value: SpectrumAnaFSEB20.write(header)
Command(header) == Result(<<WriteEv(header, None)>>, None, FALSE)

\* A getter: return SpectrumAnaFSEB20.query(header), the stripped reply text
Getter(header, raw) == Result(<<QueryEv(header, Strip(raw))>>, Strip(raw), FALSE)

set_rbw(v) == Setter("SENSe:BANDwidth:RESolution", v)

get_rbw(raw) == Getter("SENSe:BANDwidth:RESolution?", raw)

set_rbw_ratio_onoff(v) == Setter("SENSe:BANDwidth:RESolution:AUTO", v)

set_rbw_freq_span_ratio(v) == Setter("SENSe:BANDwidth:RESolution:RATio", v)

set_freq_span(v) == Setter("SENSe:FREQuency:SPAN", v)

get_freq_span(raw) == Getter("SENSe:FREQuency:SPAN?", raw)

set_center_freq(v) == Setter(":SENSe:FREQuency:CENTer", v)

get_center_freq(raw) == Getter(":SENSe:FREQuency:CENTer?", raw)

get_sweep_time(raw) == Getter(":SENSe:SWEep:TIME?", raw)

set_ref_level(v) == Setter(":DISPlay:WINDow1:TRACe1:Y:SCALe:RLEVel", v)

get_ref_level(raw) == Getter(":DISPlay:WINDow1:TRACe1:Y:SCALe:RLEVel?", raw)

set_rf_atten(v) == Setter(":INPut:ATTenuation", v)

get_rf_atten(raw) == Getter(":INPut:ATTenuation?", raw)

set_y_range(v) == Setter(":DISPlay:WINDow1:TRACe1:Y:SCALe", v)

get_y_range(raw) == Getter(":DISPlay:WINDow1:TRACe1:Y:SCALe?", raw)

set_marker_onoff(v) == Setter(":CALCulate1:MARKer1:STATe", v)

set_marker_to_trace(v) == Setter(":CALCulate1:MARKer1:TRACe", v)

set_marker_freq(v) == Setter(":CALCulate1:MARKer1:X", v)

get_marker_freq(raw) == Getter(":CALCulate1:MARKer1:X?", raw)

get_marker_value(raw) == Getter(":CALCulate1:MARKer1:Y?", raw)

set_marker_at_max == Command(":CALCulate1:MARKer1:MAXimum:PEAK")

set_marker_ndbdown_val(v) == Setter(":CALCulate1:MARKer1:FUNCtion:NDBDown", v)

set_marker_ndbdown_onoff(v) == Setter(":CALCulate1:MARKer1:FUNCtion:NDBDown:STATe", v)

get_marker_ndbdown_fspacing(raw) == Getter(":CALCulate1:MARKer1:FUNCtion:NDBDown:RESult?", raw)

get_marker_ndbdown_freqs(raw) == Getter(":CALCulate1:MARKer1:FUNCtion:NDBDown:FREQuency?", raw)

initiate_meas == Command(":INITiate1:IMMediate")

set_freerun_onoff(v) == Setter(":INITiate1:CONTinuous", v)

get_freerun_onoff(raw) == Getter(":INITiate1:CONTinuous?", raw)

\* The methods class SpectrumAnaFSEB20 defines
SAMethods == {"open_connection", "close_connection", "write", "read", "query",
              "test_connection", "get_name", "get_error",
              "set_rbw", "get_rbw", "set_rbw_ratio_onoff", "set_rbw_freq_span_ratio",
              "set_freq_span", "get_freq_span", "set_center_freq", "get_center_freq",
              "get_sweep_time", "set_ref_level", "get_ref_level", "set_rf_atten",
              "get_rf_atten", "set_y_range", "get_y_range", "set_marker_onoff",
              "set_marker_to_trace", "set_marker_freq", "get_marker_freq",
              "get_marker_value", "set_marker_at_max", "set_marker_ndbdown_val",
              "set_marker_ndbdown_onoff", "get_marker_ndbdown_fspacing",
              "get_marker_ndbdown_freqs", "initiate_meas", "set_freerun_onoff",
              "get_freerun_onoff"}

----------------------------------------------------------------------------
(* Sequencing of calls: the events of the calls made until one raises.      *)

RECURSIVE Chain(_)
Chain(rs) ==
    IF rs = <<>> THEN Result(<<>>, None, FALSE)
    ELSE IF Head(rs).raised \/ Len(rs) = 1 THEN Head(rs)
    ELSE CHOOSE c \in {Result(Head(rs).events \o rest.events, rest.ret, rest.raised) :
                          rest \in {Chain(Tail(rs))}} : TRUE

\* float(text) by the caller: raises ValueError on text that is no number
Float(t) == Result(<<>>, t, ~CanFloat(t))

RECURSIVE SleptIn(_)
\* The time the sleeps among the events take
SleptIn(events) ==
    IF events = <<>> THEN 0 ELSE Head(events).dur + SleptIn(Tail(events))

----------------------------------------------------------------------------
(* PhaselockMonitorFSEB20: its settings (__init__) and its methods.         *)

\* self.pub_interval = 0.4 s
pub_interval == 40000

\* self.sleep_time = 0.1 s
sleep_time == 10000

\* self.zoomed_freq_span = 250.0 Hz
zoomed_freq_span == Num(250, 0)

\* self.zoomed_rbw = 20.0 Hz
zoomed_rbw == Num(20, 0)

\* self.bn_compare_tol = 0.05 MHz
bn_compare_tol == Num(0, 50)

\* The 1 mHz of check_zoomed_in, in thousandths of a Hz
ZoomTolMilli == 1

\* The factor 1.01 of wait_for_sweep, in hundredths
SweepMargin == 101

\* time.sleep(2) of the ramp, in units of 10 microseconds
RampPause == 200000

\* A float of seconds as a sleep, in units of 10 microseconds, times
\* pct/100
Seconds(t, pct) == (t.int * 1000 + t.milli) * pct

\* get_peak_freq without the peak search
get_peak_freq_NoPeakSearch(raw) ==
    Chain(<<set_marker_onoff(Word("ON")),
            set_marker_to_trace(Num(1, 0)),
            get_marker_freq(raw)>>)

\* Lines 76-82
get_peak_freq(raw) ==
    Chain(<<set_marker_onoff(Word("ON")),
            set_marker_to_trace(Num(1, 0)),
            set_marker_at_max,
            get_marker_freq(raw)>>)

\* Lines 84-92
get_3db_width(raw) ==
    Chain(<<set_marker_onoff(Word("ON")),
            set_marker_to_trace(Num(1, 0)),
            set_marker_at_max,
            set_marker_ndbdown_val(WithSuffix(Num(3, 0), "dB")),
            set_marker_ndbdown_onoff(Word("ON")),
            get_marker_ndbdown_fspacing(raw)>>)

\* Lines 105-110: t = float(get_sweep_time()); time.sleep(t*1.01)
wait_for_sweep(raw) ==
    LET q == get_sweep_time(raw)
        t == Float(q.ret)
    IN  IF t.raised THEN Result(q.events, None, TRUE)
        ELSE Result(q.events \o <<SleepEv("sweep", Seconds(t.ret, SweepMargin))>>,
                    None, FALSE)

\* Lines 112-119
do_sweep_cont(raw) == Chain(<<initiate_meas, wait_for_sweep(raw)>>)

\* Lines 55-60: the text of the reference, as read from the feed
get_beatnote_counter_freq(bn) == Result(<<FeedEv(bn)>>, bn, FALSE)

\* coarse_center_on_beatnote that re-centers without broadening span and rbw
coarse_center_on_beatnote_CenterOnly(bn, rawSt) ==
    LET q == get_sweep_time(rawSt)
        t == Float(q.ret)
    IN  Chain(<<get_beatnote_counter_freq(bn),
                set_center_freq(WithSuffix(bn, "MHz")),
                q,
                t,
                IF t.raised THEN t
                ELSE Result(<<SleepEv("sweep", Seconds(t.ret, 100))>>, None, FALSE)>>)

\* Lines 62-74: st = get_sweep_time(); time.sleep(float(st))
coarse_center_on_beatnote(bn, rawSt) ==
    LET q == get_sweep_time(rawSt)
        t == Float(q.ret)
    IN  Chain(<<get_beatnote_counter_freq(bn),
                set_center_freq(WithSuffix(bn, "MHz")),
                set_freq_span(WithSuffix(Num(5, 0), "MHz")),
                set_rbw(WithSuffix(Num(10, 0), "kHz")),
                q,
                t,
                IF t.raised THEN t
                ELSE Result(<<SleepEv("sweep", Seconds(t.ret, 100))>>, None, FALSE)>>)

\* check_zoomed_in that looks at the span alone
check_zoomed_in_SpanOnly(rawSpan, rawRbw) ==
    LET qs == get_freq_span(rawSpan)
        sp == Float(qs.ret)
        qr == get_rbw(rawRbw)
        rbv == Float(qr.ret)
    IN  IF sp.raised THEN Result(qs.events, FALSE, TRUE)
        ELSE IF AbsDiffGt(sp.ret, zoomed_freq_span, ZoomTolMilli)
             THEN Result(qs.events, FALSE, FALSE)
        ELSE IF rbv.raised THEN Result(qs.events \o qr.events, FALSE, TRUE)
        ELSE Result(qs.events \o qr.events, TRUE, FALSE)

\* Lines 185-195; ret is the Boolean returned
check_zoomed_in(rawSpan, rawRbw) ==
    LET qs == get_freq_span(rawSpan)
        sp == Float(qs.ret)
        qr == get_rbw(rawRbw)
        rbv == Float(qr.ret)
    IN  IF sp.raised THEN Result(qs.events, FALSE, TRUE)
        ELSE IF AbsDiffGt(sp.ret, zoomed_freq_span, ZoomTolMilli)
             THEN Result(qs.events, FALSE, FALSE)
        ELSE IF rbv.raised THEN Result(qs.events \o qr.events, FALSE, TRUE)
        ELSE IF AbsDiffGt(rbv.ret, zoomed_rbw, ZoomTolMilli)
             THEN Result(qs.events \o qr.events, FALSE, FALSE)
        ELSE Result(qs.events \o qr.events, TRUE, FALSE)

----------------------------------------------------------------------------
(* The ramp of narrow_on_beatnote (line 143):                               *)
(*   np.logspace(np.log10(fs), np.log10(freq_span),                         *)
(*               int(np.log10(fs) - np.log10(freq_span)))                   *)

\* x * 10
Times10(x) == Norm(x.int * 10, x.milli * 10)

RECURSIVE Decades(_, _)
\* For a >= b > 0: the whole decades between them, floor(log10(a/b))
Decades(a, b) == IF Leq(Times10(b), a) THEN 1 + Decades(a, Times10(b)) ELSE 0

\* int(np.log10(fs) - np.log10(target)): int() truncates towards zero
LogCount(fs, target) ==
    IF Leq(target, fs) THEN Decades(fs, target) ELSE 0 - Decades(target, fs)

RECURSIVE IPow(_, _)
IPow(r, k) == IF k = 0 THEN 1 ELSE r * IPow(r, k - 1)

RECURSIVE RootFrom(_, _, _)
RootFrom(r, q, k) == IF IPow(r + 1, k) <= q THEN RootFrom(r + 1, q, k) ELSE r

\* The largest r >= 1 with r^k <= q, for q >= 1
IRoot(q, k) == RootFrom(1, q, k)

(* 10.0 ** np.log10(x) in floating point is x up to a rounding error, in     *)
(* either direction: 10**log10(250.0) is 249.99999999999994 and              *)
(* 10**log10(3000.0) is 3000.0000000000014.  The error is modelled as e      *)
(* units of the last place the fixed point keeps, e in Rounding.             *)
Rounding == {-1, 0, 1}

RoundTrip(x, e) == AddMilli(x, e)

(* np.logspace(log10(fs), log10(target), num) for num >= 0: num points         *)
(* geometrically spaced from fs to target, both ends included (one point:    *)
(* fs alone).  The first and last are the round trips of fs and target; the  *)
(* points between are computed in whole Hz with an integer root of the       *)
(* ratio, which keeps them between their neighbours.                         *)
Logspace(fs, target, num, e1, e2) ==
    [i \in 1..num |->
        IF i = 1 THEN RoundTrip(fs, e1)
        ELSE IF i = num THEN RoundTrip(target, e2)
        ELSE Num(fs.int \div IPow(IRoot(fs.int \div target.int, num - 1), i - 1), 0)]

----------------------------------------------------------------------------
(* The analyzer and the reference feed, as the monitor sees them.           *)

\* Upper bound on the clock time after which no new poll cycle is started
MaxRun == 50000

\* time.time() when the monitor is constructed (any value above pub_interval)
ClockAtStart == 50000

\* The references the feed may deliver, in MHz
RefVals == {Num(100, 0), Num(100, 40), Num(100, 100)}

\* Replies to the center frequency query, in Hz
CenterDomain == {Raw(Num(100000000, 0)), Raw(Num(100100000, 0)), Raw(Malformed)}

\* Replies to the span query, in Hz
SpanDomain == {Raw(Num(250, 0)), Raw(Num(250, 1)), Raw(Num(250, 2)),
               Raw(Num(249, 998)), Raw(Num(2500, 0)), Raw(Num(25, 0)),
               Raw(Malformed)}

\* Replies to the resolution bandwidth query, in Hz
RbwDomain == {Raw(Num(20, 0)), Raw(Num(20, 1)), Raw(Num(20, 2)), Raw(Malformed)}

\* Replies to the sweep time query, in s
SweepDomain == {Raw(Num(0, 100)), Raw(Malformed)}

\* Replies to the marker frequency query, in Hz
PeakDomain == {Raw(Num(100000000, 0)), Raw(Malformed)}

\* Replies to the N dB down spacing query, in Hz
WidthDomain == {Raw(Num(30, 0)), Raw(Malformed)}

CenterReplies == IF exact THEN {Raw(instr.cf)} ELSE CenterDomain

SpanReplies == IF exact THEN {Raw(instr.span)} ELSE SpanDomain

RbwReplies == IF exact THEN {Raw(instr.rbw)} ELSE RbwDomain

SweepReplies == IF exact THEN SweepDomain \ {Raw(Malformed)} ELSE SweepDomain

PeakReplies == IF exact THEN PeakDomain \ {Raw(Malformed)} ELSE PeakDomain

WidthReplies == IF exact THEN WidthDomain \ {Raw(Malformed)} ELSE WidthDomain

\* The settings an exact analyzer may hold when the monitor is constructed:
\* wide, zoomed in, and at and beyond the zoom tolerances
ExactSettings ==
    {[cf |-> Num(100000000, 0), span |-> sr[1], rbw |-> sr[2]] :
        sr \in {<<Num(5000000, 0), Num(10000, 0)>>, <<Num(250, 0), Num(20, 0)>>,
                <<Num(250, 1), Num(20, 1)>>, <<Num(250, 2), Num(20, 0)>>,
                <<Num(250, 0), Num(20, 2)>>}}

\* The settings of an analyzer that is not followed
Unfollowed == [cf |-> None, span |-> None, rbw |-> None]

\* The analyzer takes one command: a setting with a numeric argument is stored
ApplyWrite(st, ev) ==
    IF ev.op # "write" \/ ~ev.data[1].isnum THEN st
    ELSE IF ev.cmd = ":SENSe:FREQuency:CENTer" THEN [st EXCEPT !.cf = ToHz(ev.data[1])]
    ELSE IF ev.cmd = "SENSe:FREQuency:SPAN" THEN [st EXCEPT !.span = ToHz(ev.data[1])]
    ELSE IF ev.cmd = "SENSe:BANDwidth:RESolution" THEN [st EXCEPT !.rbw = ToHz(ev.data[1])]
    ELSE st

RECURSIVE ApplyAll(_, _)
ApplyAll(st, events) ==
    IF events = <<>> THEN st ELSE ApplyAll(ApplyWrite(st, Head(events)), Tail(events))

\* The settings after the events; only the exact analyzer's are followed
Settings(events) == IF exact THEN ApplyAll(instr, events) ELSE instr

----------------------------------------------------------------------------
(* The monitor's thread.  pc is "constructed" after __init__, then follows   *)
(* start_loop; "raised" is an exception that left start_loop, "deleted" is   *)
(* the monitor after __del__.                                               *)

Init ==
    /\ pc = "constructed"
    /\ caller = "none"
    /\ now = ClockAtStart
    /\ pub_last_time = 0
    /\ last_bn_counter_freq = None
    /\ bn_counter_freq = None
    /\ spans = <<>>
    /\ exact \in BOOLEAN
    /\ instr \in (IF exact THEN ExactSettings ELSE {Unfollowed})
    /\ log = <<>>
    /\ closed = {}
    /\ returned = None
    /\ polls = <<>>
    /\ lastPubAt = -1
    /\ pubGap = -1
    /\ reacquired = FALSE
    /\ cycle = 0

\* What a call leaves behind: its events, the time it slept, the settings
Did(r) ==
    /\ log' = log \o r.events
    /\ now' = now + SleptIn(r.events)
    /\ instr' = Settings(r.events)

\* Lines 197-201: start_loop(restart)
StartLoop ==
    /\ pc = "constructed"
    /\ \E restart \in BOOLEAN :
          /\ pc' = IF restart THEN "coarse" ELSE "first_read"
          /\ caller' = IF restart THEN "start" ELSE caller
    /\ UNCHANGED <<cycle, reacquired, now, pub_last_time, last_bn_counter_freq, bn_counter_freq, spans,
                   instr, exact, log, closed, returned, polls, lastPubAt, pubGap>>

\* Lines 62-74, called at line 200 or at line 222 (and then `continue`)
Coarse ==
    /\ pc = "coarse"
    /\ \E bn \in RefVals, rawSt \in SweepReplies :
          LET r == coarse_center_on_beatnote(bn, rawSt)
          IN  /\ Did(r)
              /\ pc' = IF r.raised THEN "raised"
                       ELSE IF caller = "start" THEN "narrow_start" ELSE "loop"
    /\ reacquired' = (reacquired \/ caller = "loop")
    /\ cycle' = cycle
    /\ UNCHANGED <<caller, pub_last_time, last_bn_counter_freq, bn_counter_freq, spans,
                   exact, closed, returned, polls, lastPubAt, pubGap>>

\* Lines 127-143 of narrow_on_beatnote, up to the ramp it computes.  A
\* negative count makes np.logspace raise ValueError.
NarrowStart ==
    /\ pc = "narrow_start"
    /\ \E rawSt \in SweepReplies, rawPk \in PeakReplies, rawSp \in SpanReplies,
          e1 \in Rounding, e2 \in Rounding :
          LET peak == get_peak_freq(rawPk)
              qs == get_freq_span(rawSp)
              fs == Float(qs.ret)
              r == Chain(<<set_rbw_freq_span_ratio(Str(Num(0, 20))),
                           set_rbw_ratio_onoff(Word("ON")),
                           wait_for_sweep(rawSt),
                           peak,
                           set_center_freq(peak.ret),
                           qs,
                           fs>>)
              num == LogCount(fs.ret, zoomed_freq_span)
          IN  /\ Did(r)
              /\ IF r.raised \/ num < 0
                 THEN pc' = "raised" /\ spans' = <<>>
                 ELSE /\ pc' = "narrow_ramp"
                      /\ spans' = Logspace(fs.ret, zoomed_freq_span, num, e1, e2)
                      \* the rounding of a point the ramp does not have is no choice
                      /\ (num = 0 => e1 = 0)
                      /\ (num < 2 => e2 = 0)
              /\ (r.raised \/ num < 0) => (e1 = 0 /\ e2 = 0)
    /\ UNCHANGED <<cycle, reacquired, caller, pub_last_time, last_bn_counter_freq, bn_counter_freq,
                   exact, closed, returned, polls, lastPubAt, pubGap>>

\* The pass of the ramp that locates the peak without waiting for the sweep
NarrowStep_NoWait ==
    /\ pc = "narrow_ramp"
    /\ spans # <<>>
    /\ \E rawPk \in PeakReplies :
          LET peak == get_peak_freq(rawPk)
              r == Chain(<<Result(<<SleepEv("ramp", RampPause)>>, None, FALSE),
                           set_freq_span(Str(Head(spans))),
                           peak,
                           set_center_freq(peak.ret)>>)
          IN  /\ Did(r)
              /\ pc' = IF r.raised THEN "raised" ELSE "narrow_ramp"
              /\ spans' = IF r.raised THEN <<>> ELSE Tail(spans)
    /\ UNCHANGED <<cycle, reacquired, caller, pub_last_time, last_bn_counter_freq, bn_counter_freq,
                   exact, closed, returned, polls, lastPubAt, pubGap>>

\* Lines 144-153: one pass of `for sp in spans`
NarrowStep ==
    /\ pc = "narrow_ramp"
    /\ spans # <<>>
    /\ \E rawSt \in SweepReplies, rawPk \in PeakReplies :
          LET peak == get_peak_freq(rawPk)
              r == Chain(<<Result(<<SleepEv("ramp", RampPause)>>, None, FALSE),
                           set_freq_span(Str(Head(spans))),
                           wait_for_sweep(rawSt),
                           peak,
                           set_center_freq(peak.ret)>>)
          IN  /\ Did(r)
              /\ pc' = IF r.raised THEN "raised" ELSE "narrow_ramp"
              /\ spans' = IF r.raised THEN <<>> ELSE Tail(spans)
    /\ UNCHANGED <<cycle, reacquired, caller, pub_last_time, last_bn_counter_freq, bn_counter_freq,
                   exact, closed, returned, polls, lastPubAt, pubGap>>

\* narrow_on_beatnote that ends on the last span of the ramp
NarrowFinish_NoFinalSpan ==
    /\ pc = "narrow_ramp"
    /\ spans = <<>>
    /\ Did(set_rbw(Str(zoomed_rbw)))
    /\ pc' = IF caller = "start" THEN "first_read"
             ELSE IF caller = "loop" THEN "loop" ELSE "constructed"
    /\ reacquired' = FALSE
    /\ cycle' = cycle
    /\ UNCHANGED <<caller, pub_last_time, last_bn_counter_freq, bn_counter_freq, spans,
                   exact, closed, returned, polls, lastPubAt, pubGap>>

\* narrow_on_beatnote that forces the final span and leaves the rbw alone
NarrowFinish_NoFinalRbw ==
    /\ pc = "narrow_ramp"
    /\ spans = <<>>
    /\ Did(set_freq_span(Str(zoomed_freq_span)))
    /\ pc' = IF caller = "start" THEN "first_read"
             ELSE IF caller = "loop" THEN "loop" ELSE "constructed"
    /\ reacquired' = FALSE
    /\ cycle' = cycle
    /\ UNCHANGED <<caller, pub_last_time, last_bn_counter_freq, bn_counter_freq, spans,
                   exact, closed, returned, polls, lastPubAt, pubGap>>

\* Lines 155-157, and the return to line 203 or the `continue` of line 229
NarrowFinish ==
    /\ pc = "narrow_ramp"
    /\ spans = <<>>
    /\ Did(Chain(<<set_rbw(Str(zoomed_rbw)), set_freq_span(Str(zoomed_freq_span))>>))
    /\ pc' = IF caller = "start" THEN "first_read"
             ELSE IF caller = "loop" THEN "loop" ELSE "constructed"
    /\ reacquired' = FALSE
    /\ cycle' = cycle
    /\ UNCHANGED <<caller, pub_last_time, last_bn_counter_freq, bn_counter_freq, spans,
                   exact, closed, returned, polls, lastPubAt, pubGap>>

\* Line 203
FirstRead ==
    /\ pc = "first_read"
    /\ \E bn \in RefVals :
          /\ Did(get_beatnote_counter_freq(bn))
          /\ last_bn_counter_freq' = bn
          /\ polls' = <<bn>>
    /\ pc' = "loop"
    /\ UNCHANGED <<cycle, reacquired, caller, pub_last_time, bn_counter_freq, spans, exact, closed, returned,
                   lastPubAt, pubGap>>

\* The drift check of line 213
Drifted(last, bn) == AbsDiffGt(last, bn, bn_compare_tol.milli)

\* The poll whose drift branch lacks the `continue` of line 216
Poll_NoContinue ==
    /\ pc = "loop"
    /\ now < ClockAtStart + MaxRun
    /\ \E bn \in RefVals :
          LET ramping == Drifted(last_bn_counter_freq, bn)
              r == Chain(<<Result(<<SleepEv("poll", sleep_time)>>, None, FALSE),
                           get_beatnote_counter_freq(bn),
                           IF ramping
                           THEN Result(<<SayEv("Skipping loop because phaselock seems to be ramping")>>,
                                       None, FALSE)
                           ELSE Result(<<>>, None, FALSE)>>)
          IN  /\ log' = r.events
              /\ now' = now + SleptIn(r.events)
              /\ bn_counter_freq' = bn
              /\ polls' = <<polls[Len(polls)], bn>>
              /\ pc' = "check_center"
    /\ UNCHANGED <<cycle, reacquired, caller, pub_last_time, last_bn_counter_freq, spans, instr, exact,
                   closed, returned, lastPubAt, pubGap>>

\* Lines 207-216: a poll cycle begins; the log starts afresh with it
Poll ==
    /\ pc = "loop"
    /\ now < ClockAtStart + MaxRun
    /\ \E bn \in RefVals :
          LET ramping == Drifted(last_bn_counter_freq, bn)
              r == Chain(<<Result(<<SleepEv("poll", sleep_time)>>, None, FALSE),
                           get_beatnote_counter_freq(bn),
                           IF ramping
                           THEN Result(<<SayEv("Skipping loop because phaselock seems to be ramping")>>,
                                       None, FALSE)
                           ELSE Result(<<>>, None, FALSE)>>)
          IN  /\ log' = r.events
              /\ now' = now + SleptIn(r.events)
              /\ bn_counter_freq' = bn
              /\ polls' = <<polls[Len(polls)], bn>>
              /\ pc' = IF ramping THEN "loop" ELSE "check_center"
    /\ UNCHANGED <<cycle, reacquired, caller, pub_last_time, last_bn_counter_freq, spans, instr, exact,
                   closed, returned, lastPubAt, pubGap>>

\* abs(cf/1000/1000 - bn) > tol of line 220, cf in Hz and bn, tol in MHz, in
\* exact arithmetic: |cf - bn*10^6| > tol*10^6
OffCenter(cf, bn) ==
    AbsDiffGt(cf, ToHz(WithSuffix(bn, "MHz")),
              ToHz(WithSuffix(bn_compare_tol, "MHz")).int * 1000)

\* The centering check that goes on to the zoom check whatever it read
CheckCenter_SkipsCoarse ==
    /\ pc = "check_center"
    /\ \E raw \in CenterReplies :
          LET q == get_center_freq(raw)
              cf == Float(q.ret)
              r == Chain(<<q, cf>>)
          IN  /\ Did(r)
              /\ pc' = IF r.raised THEN "raised" ELSE "check_zoom"
    /\ UNCHANGED <<cycle, reacquired, caller, pub_last_time, last_bn_counter_freq, bn_counter_freq, spans,
                   exact, closed, returned, polls, lastPubAt, pubGap>>

\* Lines 219-223, up to the call of coarse_center_on_beatnote
CheckCenter ==
    /\ pc = "check_center"
    /\ \E raw \in CenterReplies :
          \E q \in {get_center_freq(raw)} :
          \E cf \in {Float(q.ret)} :
          \E far \in {~cf.raised /\ OffCenter(cf.ret, bn_counter_freq)} :
          \E r \in {Chain(<<q, cf,
                            IF far
                            THEN Result(<<SayEv("Centering on freq counter beatnote value")>>,
                                        None, FALSE)
                            ELSE Result(<<>>, None, FALSE)>>)} :
              /\ Did(r)
              /\ pc' = IF r.raised THEN "raised"
                       ELSE IF far THEN "coarse" ELSE "check_zoom"
              /\ caller' = IF far THEN "loop" ELSE caller
    /\ UNCHANGED <<cycle, reacquired, pub_last_time, last_bn_counter_freq, bn_counter_freq, spans, exact,
                   closed, returned, polls, lastPubAt, pubGap>>

\* The zoom check that goes on to measure whatever check_zoomed_in returned
CheckZoom_AlwaysMeasures ==
    /\ pc = "check_zoom"
    /\ \E rawSp \in SpanReplies, rawRbw \in RbwReplies :
          LET z == check_zoomed_in(rawSp, rawRbw)
          IN  /\ Did(z)
              /\ pc' = IF z.raised THEN "raised" ELSE "measure"
    /\ UNCHANGED <<cycle, reacquired, caller, pub_last_time, last_bn_counter_freq, bn_counter_freq, spans, exact,
                   closed, returned, polls, lastPubAt, pubGap>>

\* Lines 226-229, up to the call of narrow_on_beatnote
CheckZoom ==
    /\ pc = "check_zoom"
    /\ \E rawSp \in SpanReplies, rawRbw \in RbwReplies :
          \E z \in {check_zoomed_in(rawSp, rawRbw)} :
          \E r \in {Chain(<<z,
                            IF z.ret
                            THEN Result(<<>>, None, FALSE)
                            ELSE Result(<<SayEv("Zooming in")>>, None, FALSE)>>)} :
              /\ Did(r)
              /\ pc' = IF z.raised THEN "raised"
                       ELSE IF z.ret THEN "measure" ELSE "narrow_start"
              /\ caller' = IF ~z.raised /\ ~z.ret THEN "loop" ELSE caller
    /\ UNCHANGED <<cycle, reacquired, pub_last_time, last_bn_counter_freq, bn_counter_freq, spans, exact,
                   closed, returned, polls, lastPubAt, pubGap>>

\* The publish test without the interval
PublishDue_NoInterval(t) == t > pub_last_time

\* Line 246
PublishDue(t) == t > pub_last_time + pub_interval

\* The measurement that publishes the target rbw in place of the one it read
Measure_PublishesTarget ==
    /\ pc = "measure"
    /\ \E rawSt \in SweepReplies, rawPk \in PeakReplies, rawW \in WidthReplies,
          rawRbw \in RbwReplies :
          LET pf == get_peak_freq(rawPk)
              fw == get_3db_width(rawW)
              qr == get_rbw(rawRbw)
              rbw == Float(qr.ret)
              m == Chain(<<do_sweep_cont(rawSt), pf, fw, qr, rbw,
                           set_center_freq(pf.ret)>>)
              t == now + SleptIn(m.events)
              due == ~m.raised /\ PublishDue(t)
              r == Chain(<<m,
                           IF due
                           THEN Result(<<SayEv("pub"),
                                         PublishEv(<<zoomed_rbw, pf.ret, fw.ret>>)>>,
                                       None, FALSE)
                           ELSE Result(<<>>, None, FALSE)>>)
          IN  /\ log' = log \o r.events
              /\ instr' = Settings(r.events)
              /\ now' = t
              /\ pub_last_time' = IF due THEN t ELSE pub_last_time
              /\ lastPubAt' = IF due THEN t ELSE lastPubAt
              /\ pubGap' = IF due /\ lastPubAt # -1 THEN t - lastPubAt ELSE pubGap
              /\ pc' = IF r.raised THEN "raised" ELSE "loop"
    /\ UNCHANGED <<cycle, reacquired, caller, last_bn_counter_freq, bn_counter_freq, spans, exact, closed, returned,
                   polls>>

\* Lines 233-250: sweep, measure, re-center, and publish if it is time
Measure ==
    /\ pc = "measure"
    /\ \E rawSt \in SweepReplies, rawPk \in PeakReplies, rawW \in WidthReplies,
          rawRbw \in RbwReplies :
          LET pf == get_peak_freq(rawPk)
              fw == get_3db_width(rawW)
              qr == get_rbw(rawRbw)
              rbw == Float(qr.ret)
              m == Chain(<<do_sweep_cont(rawSt), pf, fw, qr, rbw,
                           set_center_freq(pf.ret)>>)
              t == now + SleptIn(m.events)
              due == ~m.raised /\ PublishDue(t)
              r == Chain(<<m,
                           IF due
                           THEN Result(<<SayEv("pub"),
                                         PublishEv(<<rbw.ret, pf.ret, fw.ret>>)>>,
                                       None, FALSE)
                           ELSE Result(<<>>, None, FALSE)>>)
          IN  /\ log' = log \o r.events
              /\ instr' = Settings(r.events)
              /\ now' = t
              /\ pub_last_time' = IF due THEN t ELSE pub_last_time
              /\ lastPubAt' = IF due THEN t ELSE lastPubAt
              /\ pubGap' = IF due /\ lastPubAt # -1 THEN t - lastPubAt ELSE pubGap
              /\ pc' = IF r.raised THEN "raised" ELSE "loop"
    /\ UNCHANGED <<cycle, reacquired, caller, last_bn_counter_freq, bn_counter_freq, spans, exact, closed, returned,
                   polls>>

\* Lines 256-259: __del__ looks up close_connenction on the analyzer object;
\* a name the class does not define raises AttributeError and ends __del__
MonitorDel ==
    IF "close_connenction" \in SAMethods
    THEN {"transport", "publisher", "subscriber"}
    ELSE {}

\* The monitor object is dropped: before start_loop was called, or after an
\* exception left it
Del ==
    /\ pc \in {"constructed", "raised"}
    /\ pc' = "deleted"
    /\ closed' = closed \cup MonitorDel
    /\ UNCHANGED <<cycle, reacquired, caller, now, pub_last_time, last_bn_counter_freq, bn_counter_freq,
                   spans, instr, exact, log, returned, polls, lastPubAt, pubGap>>

Next ==
    \/ StartLoop
    \/ Coarse
    \/ NarrowStart
    \/ NarrowStep
    \/ NarrowFinish
    \/ FirstRead
    \/ Poll
    \/ CheckCenter
    \/ CheckZoom
    \/ Measure
    \/ Del

Spec == Init /\ [][Next]_vars

----------------------------------------------------------------------------
(* narrow_on_beatnote called on its own, on an analyzer that reports the     *)
(* settings it holds: the span it holds when the call is made is any of      *)
(* NarrowSpans.                                                             *)

NarrowSpans == {Num(250, 0), Num(250, 1), Num(250, 2), Num(249, 998), Num(100, 0),
                Num(25, 0), Num(1000, 0), Num(2500, 0), Num(3000, 0), Num(25000, 0),
                Num(250000, 0), Num(1000000, 0), Num(5000000, 0)}

InitNarrow ==
    /\ pc = "narrow_start"
    /\ caller = "direct"
    /\ now = ClockAtStart
    /\ pub_last_time = 0
    /\ last_bn_counter_freq = None
    /\ bn_counter_freq = None
    /\ spans = <<>>
    /\ \E s0 \in NarrowSpans, r0 \in {Num(10000, 0), Num(20, 0)} :
          instr = [cf |-> Num(100000000, 0), span |-> s0, rbw |-> r0]
    /\ exact = TRUE
    /\ log = <<>>
    /\ closed = {}
    /\ returned = None
    /\ polls = <<>>
    /\ lastPubAt = -1
    /\ pubGap = -1
    /\ reacquired = FALSE
    /\ cycle = 0

NextNarrow ==
    \/ NarrowStart
    \/ NarrowStep
    \/ NarrowFinish

SpecNarrow == InitNarrow /\ [][NextNarrow]_vars

----------------------------------------------------------------------------
(* The driver on its own: any one method of SpectrumAnaFSEB20 that writes a  *)
(* setting or reads a value, called with any argument, the analyzer          *)
(* replying anything.  caller is the method called, log the events of the    *)
(* call, returned what it returned.                                         *)

SetterNames == {"set_rbw", "set_rbw_ratio_onoff", "set_rbw_freq_span_ratio",
                "set_freq_span", "set_center_freq", "set_ref_level", "set_rf_atten",
                "set_y_range", "set_marker_onoff", "set_marker_to_trace",
                "set_marker_freq", "set_marker_at_max", "set_marker_ndbdown_val",
                "set_marker_ndbdown_onoff", "initiate_meas", "set_freerun_onoff"}

GetterNames == {"get_rbw", "get_freq_span", "get_center_freq", "get_sweep_time",
                "get_ref_level", "get_rf_atten", "get_y_range", "get_marker_freq",
                "get_marker_value", "get_marker_ndbdown_fspacing",
                "get_marker_ndbdown_freqs", "get_freerun_onoff"}

\* Arguments a caller may pass to a setter
ArgVals == {Num(250, 0), WithSuffix(Num(5, 0), "MHz"), WithSuffix(Num(3, 0), "dB"),
            Word("ON"), Malformed}

\* A well-formed pair of numbers, "low,high"
PairText == Word("99999985.0,100000015.0")

\* Replies the analyzer may give to a query
ReplyVals == {Raw(Num(250, 0)), Raw(Num(0, 100)), Raw(PairText), Raw(Malformed)}

CallSetter(m, v) ==
    CASE m = "set_rbw" -> set_rbw(v)
      [] m = "set_rbw_ratio_onoff" -> set_rbw_ratio_onoff(v)
      [] m = "set_rbw_freq_span_ratio" -> set_rbw_freq_span_ratio(v)
      [] m = "set_freq_span" -> set_freq_span(v)
      [] m = "set_center_freq" -> set_center_freq(v)
      [] m = "set_ref_level" -> set_ref_level(v)
      [] m = "set_rf_atten" -> set_rf_atten(v)
      [] m = "set_y_range" -> set_y_range(v)
      [] m = "set_marker_onoff" -> set_marker_onoff(v)
      [] m = "set_marker_to_trace" -> set_marker_to_trace(v)
      [] m = "set_marker_freq" -> set_marker_freq(v)
      [] m = "set_marker_at_max" -> set_marker_at_max
      [] m = "set_marker_ndbdown_val" -> set_marker_ndbdown_val(v)
      [] m = "set_marker_ndbdown_onoff" -> set_marker_ndbdown_onoff(v)
      [] m = "initiate_meas" -> initiate_meas
      [] m = "set_freerun_onoff" -> set_freerun_onoff(v)

CallGetter(m, raw) ==
    CASE m = "get_rbw" -> get_rbw(raw)
      [] m = "get_freq_span" -> get_freq_span(raw)
      [] m = "get_center_freq" -> get_center_freq(raw)
      [] m = "get_sweep_time" -> get_sweep_time(raw)
      [] m = "get_ref_level" -> get_ref_level(raw)
      [] m = "get_rf_atten" -> get_rf_atten(raw)
      [] m = "get_y_range" -> get_y_range(raw)
      [] m = "get_marker_freq" -> get_marker_freq(raw)
      [] m = "get_marker_value" -> get_marker_value(raw)
      [] m = "get_marker_ndbdown_fspacing" -> get_marker_ndbdown_fspacing(raw)
      [] m = "get_marker_ndbdown_freqs" -> get_marker_ndbdown_freqs(raw)
      [] m = "get_freerun_onoff" -> get_freerun_onoff(raw)

InitFacade ==
    /\ pc = "facade"
    /\ caller = "none"
    /\ now = ClockAtStart
    /\ pub_last_time = 0
    /\ last_bn_counter_freq = None
    /\ bn_counter_freq = None
    /\ spans = <<>>
    /\ instr = Unfollowed
    /\ exact = FALSE
    /\ log = <<>>
    /\ closed = {}
    /\ returned = None
    /\ polls = <<>>
    /\ lastPubAt = -1
    /\ pubGap = -1
    /\ reacquired = FALSE
    /\ cycle = 0

\* What one direct call leaves behind
Called(m, r) ==
    /\ caller' = m
    /\ log' = r.events
    /\ returned' = r.ret
    /\ pc' = IF r.raised THEN "facade_raised" ELSE "facade_returned"
    /\ UNCHANGED <<cycle, reacquired, now, pub_last_time, last_bn_counter_freq, bn_counter_freq, spans,
                   instr, exact, closed, polls, lastPubAt, pubGap>>

FacadeSet ==
    /\ pc \in {"facade", "facade_returned", "facade_raised"}
    /\ \E m \in SetterNames, v \in ArgVals : Called(m, CallSetter(m, v))

FacadeGet ==
    /\ pc \in {"facade", "facade_returned", "facade_raised"}
    /\ \E m \in GetterNames, raw \in ReplyVals : Called(m, CallGetter(m, raw))

NextFacade ==
    \/ FacadeSet
    \/ FacadeGet

SpecFacade == InitFacade /\ [][NextFacade]_vars

----------------------------------------------------------------------------
(* The driver's connection: SpectrumAnaFSEB20() is constructed against an    *)
(* instrument that identifies itself in any way, and is then used and        *)
(* closed.  log holds everything done since the construction began.         *)

gpib_addr == 20

\* The text test_connection looks for in the identification
IdnModel == "Rohde&Schwarz,FSEB 20"

ConnectionWarning == "Testing connection failed. Wrong device or connection failed."

\* What the instrument on the line may answer to *IDN?
IdnReplies == {Raw(Word("Rohde&Schwarz,FSEB 20,827765/013,3.40")),
               Raw(Word("Rohde&Schwarz,FSEA 30,000000/000,1.00")),
               Raw(Word("HEWLETT-PACKARD,8566B,0,1")),
               Raw(Word(""))}

\* needle in s, on Python strings
Contains(needle, s) ==
    \E i \in 1..(Len(s) - Len(needle) + 1) : SubSeq(s, i, i + Len(needle) - 1) = needle

\* Lines 93-94
get_name(raw) == Getter("*IDN?", raw)

\* Lines 42-54
open_connection ==
    Result(<<SayEv("Opening connection to ASRL/dev/RohdeSchwarz_SpecAna::INSTR"),
             Ev("open", "ASRL/dev/RohdeSchwarz_SpecAna::INSTR", <<>>, 0),
             WriteEv("++addr", Num(gpib_addr, 0)),
             SayEv("Connection opened.")>>,
           None, FALSE)

\* Lines 56-60
close_connection == Result(<<Ev("close", "transport", <<>>, 0)>>, None, FALSE)

\* test_connection with the raise of line 90 in force
test_connection_Raises(raw) ==
    LET q == get_name(raw)
        s == q.ret
    IN  IF ~Contains(IdnModel, s.suffix)
        THEN Result(q.events \o <<SayEv(s.suffix), SayEv(ConnectionWarning)>>, None, TRUE)
        ELSE Result(q.events \o <<SayEv(s.suffix)>>, s, FALSE)

\* Lines 84-91
test_connection(raw) ==
    LET q == get_name(raw)
        s == q.ret
    IN  Result(q.events \o <<SayEv(s.suffix)>>
                        \o (IF ~Contains(IdnModel, s.suffix)
                            THEN <<SayEv(ConnectionWarning)>> ELSE <<>>),
               s, FALSE)

\* Calls of a setter or getter allowed after the construction
MaxUse == 1

RECURSIVE Commands(_)
\* The writes and queries among the events
Commands(events) ==
    IF events = <<>> THEN <<>>
    ELSE IF Head(events).op \in {"write", "query"}
         THEN <<Head(events)>> \o Commands(Tail(events))
         ELSE Commands(Tail(events))

InitConnect ==
    /\ pc = "sa_new"
    /\ caller = "none"
    /\ now = ClockAtStart
    /\ pub_last_time = 0
    /\ last_bn_counter_freq = None
    /\ bn_counter_freq = None
    /\ spans = <<>>
    /\ instr = Unfollowed
    /\ exact = FALSE
    /\ log = <<>>
    /\ closed = {}
    /\ returned = None
    /\ polls = <<>>
    /\ lastPubAt = -1
    /\ pubGap = -1
    /\ reacquired = FALSE
    /\ cycle = 0

\* Lines 27-39: SpectrumAnaFSEB20.__init__
SAInit ==
    /\ pc = "sa_new"
    /\ \E raw \in IdnReplies :
          LET r == Chain(<<open_connection, test_connection(raw)>>)
          IN  /\ log' = r.events
              /\ pc' = IF r.raised THEN "sa_raised" ELSE "sa_ready"
    /\ caller' = "__init__"
    /\ UNCHANGED <<cycle, reacquired, now, pub_last_time, last_bn_counter_freq, bn_counter_freq, spans,
                   instr, exact, closed, returned, polls, lastPubAt, pubGap>>

\* A setter or getter called on the constructed driver
SAUse ==
    /\ pc = "sa_ready"
    /\ Len(Commands(log)) < 2 + MaxUse
    /\ \E r \in {CallSetter(m, v) : m \in SetterNames, v \in ArgVals}
                \cup {CallGetter(m, raw) : m \in GetterNames, raw \in ReplyVals} :
          /\ log' = log \o r.events
          /\ returned' = r.ret
    /\ caller' = "use"
    /\ UNCHANGED <<cycle, reacquired, pc, now, pub_last_time, last_bn_counter_freq, bn_counter_freq, spans,
                   instr, exact, closed, polls, lastPubAt, pubGap>>

\* Lines 56-60: close_connection called on the constructed driver
SAClose ==
    /\ pc = "sa_ready"
    /\ log' = log \o close_connection.events
    /\ closed' = closed \cup {"transport"}
    /\ pc' = "sa_closed"
    /\ caller' = "close_connection"
    /\ UNCHANGED <<cycle, reacquired, now, pub_last_time, last_bn_counter_freq, bn_counter_freq, spans,
                   instr, exact, returned, polls, lastPubAt, pubGap>>

NextConnect ==
    \/ SAInit
    \/ SAUse
    \/ SAClose

SpecConnect == InitConnect /\ [][NextConnect]_vars

----------------------------------------------------------------------------
(* The monitor running without end, for what it does eventually.  The       *)
(* analyzer stores every setting it is commanded and reports it, answers    *)
(* every query with a well-formed number, and finds the peak at or near the *)
(* reference the feed last gave.  The feed is free.                         *)
(*                                                                          *)
(* The clock is kept relative so that the run has finitely many states:     *)
(* now stays where it is and pub_last_time recedes by the time slept, down  *)
(* to 0.  time.time() > pub_last_time + pub_interval has the same value on  *)
(* the receded clock as on the running one, because now > pub_interval.     *)
(* cycle tells a poll cycle from the one before it, as the running clock     *)
(* would.                                                                   *)
(* The steps of start_loop that do not sleep are those of Spec.             *)

\* pub_last_time as seen from a clock that has run for dt
Receded(dt) == IF pub_last_time > dt THEN pub_last_time - dt ELSE 0

\* What a call leaves behind on the relative clock
LiveDid(r) ==
    /\ log' = log \o r.events
    /\ instr' = ApplyAll(instr, r.events)
    /\ pub_last_time' = Receded(SleptIn(r.events))

\* The reference the feed gave last, in MHz
LastFeed(events) ==
    events[CHOOSE i \in 1..Len(events) :
               /\ events[i].op = "feed"
               /\ \A j \in (i + 1)..Len(events) : events[j].op # "feed"].data[1]

\* Where the analyzer finds the peak: at the reference or 10 kHz above it
LivePeaks(ref) ==
    {Raw(Num(ToHz(WithSuffix(ref, "MHz")).int + off.int, 0)) : off \in {Num(0, 0), Num(10000, 0)}}

InitLive ==
    /\ pc = "constructed"
    /\ caller = "none"
    /\ now = ClockAtStart
    /\ pub_last_time = 0
    /\ last_bn_counter_freq = None
    /\ bn_counter_freq = None
    /\ spans = <<>>
    /\ exact = TRUE
    /\ instr \in ExactSettings
    /\ log = <<>>
    /\ closed = {}
    /\ returned = None
    /\ polls = <<>>
    /\ lastPubAt = -1
    /\ pubGap = -1
    /\ reacquired = FALSE
    /\ cycle = 0

\* Lines 62-74, called at line 200 or at line 222
LiveCoarse ==
    /\ pc = "coarse"
    /\ \E bn \in RefVals, rawSt \in SweepReplies :
          \E r \in {coarse_center_on_beatnote(bn, rawSt)} :
              /\ LiveDid(r)
              /\ pc' = IF caller = "start" THEN "narrow_start" ELSE "loop"
    /\ reacquired' = (reacquired \/ caller = "loop")
    /\ cycle' = cycle
    /\ UNCHANGED <<caller, now, last_bn_counter_freq, bn_counter_freq, spans,
                   exact, closed, returned, polls, lastPubAt, pubGap>>

\* np.logspace's end points here come back as they went in: the ramp's
\* rounding is followed in SpecNarrow and in Spec
LiveRounding == {0}

\* Lines 127-139 of narrow_on_beatnote: the ratio, the sweep wait, the centering
NarrowPrelude(rawSt, rawPk) ==
    {Chain(<<set_rbw_freq_span_ratio(Str(Num(0, 20))),
             set_rbw_ratio_onoff(Word("ON")),
             wait_for_sweep(rawSt),
             peak,
             set_center_freq(peak.ret)>>) : peak \in {get_peak_freq(rawPk)}}

\* Lines 127-143 of narrow_on_beatnote
LiveNarrowStart ==
    /\ pc = "narrow_start"
    /\ \E rawSt \in SweepReplies, rawPk \in LivePeaks(LastFeed(log)),
          e1 \in LiveRounding, e2 \in LiveRounding :
          \E pre \in NarrowPrelude(rawSt, rawPk) :
          \E qs \in {get_freq_span(Raw(ApplyAll(instr, pre.events).span))} :
          \E fs \in {Float(qs.ret)} :
          \E r \in {Chain(<<pre, qs, fs>>)} :
          \E num \in {LogCount(fs.ret, zoomed_freq_span)} :
              /\ LiveDid(r)
              /\ IF num < 0
                 THEN pc' = "raised" /\ spans' = <<>> /\ e1 = 0 /\ e2 = 0
                 ELSE /\ pc' = "narrow_ramp"
                      /\ spans' = Logspace(fs.ret, zoomed_freq_span, num, e1, e2)
                      /\ (num = 0 => e1 = 0)
                      /\ (num < 2 => e2 = 0)
    /\ UNCHANGED <<cycle, reacquired, caller, now, last_bn_counter_freq, bn_counter_freq,
                   exact, closed, returned, polls, lastPubAt, pubGap>>

\* Lines 144-153: one pass of `for sp in spans`
LiveNarrowStep ==
    /\ pc = "narrow_ramp"
    /\ spans # <<>>
    /\ \E rawSt \in SweepReplies, rawPk \in LivePeaks(LastFeed(log)) :
          \E peak \in {get_peak_freq(rawPk)} :
          \E r \in {Chain(<<Result(<<SleepEv("ramp", RampPause)>>, None, FALSE),
                            set_freq_span(Str(Head(spans))),
                            wait_for_sweep(rawSt),
                            peak,
                            set_center_freq(peak.ret)>>)} :
              LiveDid(r)
    /\ spans' = Tail(spans)
    /\ UNCHANGED <<cycle, reacquired, pc, caller, now, last_bn_counter_freq, bn_counter_freq,
                   exact, closed, returned, polls, lastPubAt, pubGap>>

\* Lines 207-216: a poll cycle begins
LivePoll ==
    /\ pc = "loop"
    /\ \E bn \in RefVals :
          \E ramping \in {Drifted(last_bn_counter_freq, bn)} :
          \E r \in {Chain(<<Result(<<SleepEv("poll", sleep_time)>>, None, FALSE),
                            get_beatnote_counter_freq(bn),
                            IF ramping
                            THEN Result(<<SayEv("Skipping loop because phaselock seems to be ramping")>>,
                                        None, FALSE)
                            ELSE Result(<<>>, None, FALSE)>>)} :
              /\ log' = r.events
              /\ pub_last_time' = Receded(SleptIn(r.events))
              /\ bn_counter_freq' = bn
              /\ polls' = <<polls[Len(polls)], bn>>
              /\ pc' = IF ramping THEN "loop" ELSE "check_center"
    /\ cycle' = 1 - cycle
    /\ UNCHANGED <<reacquired, caller, now, last_bn_counter_freq, spans, instr, exact,
                   closed, returned, lastPubAt, pubGap>>

\* Lines 233-250: sweep, measure, re-center, and publish if it is time
LiveMeasure ==
    /\ pc = "measure"
    /\ \E rawSt \in SweepReplies, rawPk \in LivePeaks(LastFeed(log)), rawW \in WidthReplies :
          \E pf \in {get_peak_freq(rawPk)}, fw \in {get_3db_width(rawW)},
             qr \in {get_rbw(Raw(instr.rbw))} :
          \E rbw \in {Float(qr.ret)} :
          \E m \in {Chain(<<do_sweep_cont(rawSt), pf, fw, qr, rbw,
                            set_center_freq(pf.ret)>>)} :
          \E due \in {PublishDue(now + SleptIn(m.events))} :
          \E r \in {Chain(<<m,
                            IF due
                            THEN Result(<<SayEv("pub"),
                                          PublishEv(<<rbw.ret, pf.ret, fw.ret>>)>>,
                                        None, FALSE)
                            ELSE Result(<<>>, None, FALSE)>>)} :
              /\ log' = log \o r.events
              /\ instr' = ApplyAll(instr, r.events)
              /\ pub_last_time' = IF due THEN now ELSE Receded(SleptIn(m.events))
    /\ pc' = "loop"
    /\ UNCHANGED <<cycle, reacquired, caller, now, last_bn_counter_freq, bn_counter_freq, spans,
                   exact, closed, returned, polls, lastPubAt, pubGap>>

NextLive ==
    \/ StartLoop
    \/ LiveCoarse
    \/ LiveNarrowStart
    \/ LiveNarrowStep
    \/ NarrowFinish
    \/ FirstRead
    \/ LivePoll
    \/ CheckCenter
    \/ CheckZoom
    \/ LiveMeasure

\* start_loop is one thread that nothing holds up: it takes its next step
SpecLive == InitLive /\ [][NextLive]_vars /\ WF_vars(NextLive)

----------------------------------------------------------------------------
(* Reading the log.                                                         *)

CenterCmd == ":SENSe:FREQuency:CENTer"

SpanCmd == "SENSe:FREQuency:SPAN"

MarkerFreqQuery == ":CALCulate1:MARKer1:X?"

SweepTimeQuery == ":SENSe:SWEep:TIME?"

RampingMsg == "Skipping loop because phaselock seems to be ramping"

IsWrite(e, cmd) == e.op = "write" /\ e.cmd = cmd

IsQuery(e, cmd) == e.op = "query" /\ e.cmd = cmd

Said(msg) == \E i \in 1..Len(log) : log[i] = SayEv(msg)

\* start_loop has polled in its while loop: the log is the latest cycle's
InPollCycle == Len(polls) = 2

\* coarse_center_on_beatnote has read the feed and commanded center, span, rbw
CoarseDone ==
    \E i \in 1..(Len(log) - 3) :
        /\ log[i].op = "feed"
        /\ log[i + 1] = WriteEv(CenterCmd, WithSuffix(log[i].data[1], "MHz"))
        /\ log[i + 2] = WriteEv(SpanCmd, WithSuffix(Num(5, 0), "MHz"))
        /\ log[i + 3] = WriteEv("SENSe:BANDwidth:RESolution", WithSuffix(Num(10, 0), "kHz"))

\* No sweep was started, no marker moved or read, nothing published
NoMeasurement ==
    \A i \in 1..Len(log) :
        /\ log[i].op # "publish"
        /\ log[i].cmd \notin {":INITiate1:IMMediate", ":CALCulate1:MARKer1:MAXimum:PEAK",
                              MarkerFreqQuery,
                              ":CALCulate1:MARKer1:FUNCtion:NDBDown:RESult?"}

\* The center frequency the analyzer held when the cycle polled: what it
\* replied if it was asked, and else, no command having been sent, what it holds
CenterAtPoll ==
    IF \E i \in 1..Len(log) : IsQuery(log[i], CenterCmd \o "?")
    THEN log[CHOOSE i \in 1..Len(log) : IsQuery(log[i], CenterCmd \o "?")].data[1]
    ELSE instr.cf

RECURSIVE SpanCmds(_)
\* The spans commanded, in order
SpanCmds(events) ==
    IF events = <<>> THEN <<>>
    ELSE IF IsWrite(Head(events), SpanCmd)
         THEN <<Head(events).data[1]>> \o SpanCmds(Tail(events))
         ELSE SpanCmds(Tail(events))

\* x lies within the zoom tolerance of target
Within(x, target) ==
    /\ Abs(x.int - target.int) <= 1
    /\ Abs((x.int - target.int) * 1000 + (x.milli - target.milli)) <= ZoomTolMilli

----------------------------------------------------------------------------
(* The claims.                                                              *)

\* C1 (as claimed): when two consecutive polls of the reference differ by at
\* most bn_compare_tol, the cycle of the later poll is not classified as
\* ramping, whatever was read before.
C1_SteadyPollsAreNotRamping ==
    (InPollCycle /\ ~AbsDiffGt(polls[1], polls[2], bn_compare_tol.milli))
        => ~Said(RampingMsg)

\* C2 (as claimed): in every poll cycle in which the analyzer's center
\* frequency is more than bn_compare_tol from the reference, the cycle
\* re-acquires (coarse_center_on_beatnote) and measures and publishes nothing.
\* Stated for the analyzer that reports what it holds, at the end of a cycle.
C2_OffCenterCycleReacquires ==
    (exact /\ InPollCycle /\ pc = "loop" /\ OffCenter(CenterAtPoll, bn_counter_freq))
        => (CoarseDone /\ NoMeasurement)

\* C2 (amended): in every poll cycle that passes the drift check and in which
\* the center frequency read from the analyzer is more than bn_compare_tol
\* from the reference, coarse_center_on_beatnote is called and the cycle
\* measures and publishes nothing.  (At pc = "coarse" the call is being made.)
C2_OffCenterReadReacquires ==
    \A i \in 1..Len(log) :
        (/\ InPollCycle
         /\ IsQuery(log[i], CenterCmd \o "?")
         /\ CanFloat(log[i].data[1])
         /\ OffCenter(log[i].data[1], bn_counter_freq)
         /\ pc # "coarse")
            => (~Said(RampingMsg) /\ CoarseDone /\ NoMeasurement)

C2_Witness ==
    /\ InPollCycle
    /\ pc = "loop"
    /\ \E i \in 1..Len(log) :
          /\ IsQuery(log[i], CenterCmd \o "?")
          /\ CanFloat(log[i].data[1])
          /\ OffCenter(log[i].data[1], bn_counter_freq)
    /\ CoarseDone

\* C3: any two publish calls of start_loop are more than pub_interval of
\* clock time apart.
C3_PublishesMoreThanIntervalApart == pubGap # -1 => pubGap > pub_interval

\* A cycle has published for the second time in the run
C3_Witness ==
    /\ pubGap # -1
    /\ pc = "loop"
    /\ \E i \in 1..Len(log) : log[i].op = "publish"

\* narrow_on_beatnote, called on its own, has returned
NarrowReturned == caller = "direct" /\ pc = "constructed"

\* The span the analyzer reported to narrow_on_beatnote
ReportedSpan ==
    log[CHOOSE i \in 1..Len(log) : IsQuery(log[i], SpanCmd \o "?")].data[1]

\* C4 (as claimed): for S0 > St > 0 the spans narrow_on_beatnote commands are
\* non-increasing, the first is <= S0 and the last is exactly St.
C4_RampNonIncreasing ==
    (NarrowReturned /\ Less(zoomed_freq_span, ReportedSpan)) =>
        LET c == SpanCmds(log)
        IN  /\ Len(c) >= 1
            /\ Leq(c[1], ReportedSpan)
            /\ c[Len(c)] = Str(zoomed_freq_span)
            /\ \A i \in 1..(Len(c) - 1) : Leq(c[i + 1], c[i])

\* C4 (amended): for S0 > St > 0 the last span commanded is exactly St, and
\* up to the floating-point rounding of 10**log10(x) the spans are
\* non-increasing and the first is <= S0: the first is at most a round trip
\* of S0 and each one is at most a round trip of the one before.
C4_RampNonIncreasingUpToRounding ==
    (NarrowReturned /\ Less(zoomed_freq_span, ReportedSpan)) =>
        LET c == SpanCmds(log)
        IN  /\ Len(c) >= 1
            /\ \E e \in Rounding : Leq(c[1], RoundTrip(ReportedSpan, e))
            /\ c[Len(c)] = Str(zoomed_freq_span)
            /\ \A i \in 1..(Len(c) - 1) : \E e \in Rounding : Leq(c[i + 1], RoundTrip(c[i], e))

\* A ramp of three or more points and the final span were commanded
C4_Witness ==
    /\ NarrowReturned
    /\ Less(zoomed_freq_span, ReportedSpan)
    /\ Len(SpanCmds(log)) >= 4

\* check_zoomed_in has returned to the poll cycle
ZoomChecked ==
    /\ InPollCycle
    /\ \/ pc = "measure"
       \/ pc = "narrow_start" /\ caller = "loop"

ZoomSpanOk ==
    \E i \in 1..Len(log) :
        /\ IsQuery(log[i], SpanCmd \o "?")
        /\ CanFloat(log[i].data[1])
        /\ Within(log[i].data[1], zoomed_freq_span)

ZoomRbwOk ==
    \E i \in 1..Len(log) :
        /\ IsQuery(log[i], "SENSe:BANDwidth:RESolution?")
        /\ CanFloat(log[i].data[1])
        /\ Within(log[i].data[1], zoomed_rbw)

\* C5: check_zoomed_in returns True exactly when the span it queried is within
\* 0.001 Hz of zoomed_freq_span and the resolution bandwidth it queried is
\* within 0.001 Hz of zoomed_rbw; for the analyzer that reports what it holds,
\* exactly when both of its settings are.
C5_ZoomedInIffBothWithinTolerance ==
    ZoomChecked =>
        /\ (pc = "measure") <=> (ZoomSpanOk /\ ZoomRbwOk)
        /\ exact => ((pc = "measure") <=>
                        (Within(instr.span, zoomed_freq_span) /\ Within(instr.rbw, zoomed_rbw)))

\* It returned True on a span at the edge of the tolerance
C5_Witness ==
    /\ ZoomChecked
    /\ pc = "measure"
    /\ \E i \in 1..Len(log) :
          IsQuery(log[i], SpanCmd \o "?") /\ log[i].data[1] = Num(250, 1)

\* C6: get_peak_freq issues marker-enable, marker-trace-select, marker-to-peak
\* and the marker frequency query, in that order with nothing in between, and
\* returns the reply: the caller's next center command carries it, and every
\* center command that carries a plain frequency carries such a reply.
C6_PeakFreqSequence ==
    /\ \A i \in 1..Len(log) :
          IsQuery(log[i], MarkerFreqQuery) =>
              /\ i >= 4
              /\ log[i - 3] = WriteEv(":CALCulate1:MARKer1:STATe", Word("ON"))
              /\ log[i - 2] = WriteEv(":CALCulate1:MARKer1:TRACe", Num(1, 0))
              /\ log[i - 1] = WriteEv(":CALCulate1:MARKer1:MAXimum:PEAK", None)
              /\ \A j \in (i + 1)..Len(log) :
                    (/\ IsWrite(log[j], CenterCmd)
                     /\ \A k \in (i + 1)..(j - 1) : ~IsWrite(log[k], CenterCmd))
                        => log[j].data[1] = log[i].data[1]
    /\ \A j \in 1..Len(log) :
          (IsWrite(log[j], CenterCmd) /\ log[j].data[1].suffix # "MHz") =>
              \E i \in 1..(j - 1) :
                  IsQuery(log[i], MarkerFreqQuery) /\ log[i].data[1] = log[j].data[1]

\* A peak was read and the center was commanded to it
C6_Witness ==
    \E i \in 1..Len(log) :
        /\ IsQuery(log[i], MarkerFreqQuery)
        /\ CanFloat(log[i].data[1])
        /\ \E j \in (i + 1)..Len(log) :
              log[j] = WriteEv(CenterCmd, log[i].data[1])

\* C7 (as claimed): every sweep wait sleeps at least 1.01 times the sweep time
\* the analyzer reported just before it.
C7_SweepWaitsHaveMargin ==
    \A i \in 1..Len(log) :
        (log[i].op = "sleep" /\ log[i].cmd = "sweep") =>
            /\ i > 1
            /\ IsQuery(log[i - 1], SweepTimeQuery)
            /\ log[i].dur >= Seconds(log[i - 1].data[1], SweepMargin)

\* C8 (as claimed): a malformed reply to a query of a poll cycle does not end
\* the polling loop.
C8_MalformedReplyKeepsLoopAlive ==
    (/\ InPollCycle
     /\ \E i \in 1..Len(log) : log[i].op = "query" /\ ~CanFloat(log[i].data[1]))
        => pc \notin {"raised", "deleted"}

\* C9 (as claimed): when the monitor has terminated, the instrument
\* transport, the publisher and the feed subscriber are all closed.
C9_AllReleasedOnExit ==
    pc = "deleted" => closed = {"transport", "publisher", "subscriber"}

\* A reply that is a number or a pair of numbers
WellFormed(t) == CanFloat(t) \/ t = PairText

\* C10 (as claimed): a setter issues exactly one write and no query; a getter
\* issues exactly one query, returns a number (or pair) parsed from a
\* well-formed reply and fails on a reply that is not well formed.
C10_SettersWriteGettersParse ==
    (pc \in {"facade_returned", "facade_raised"}) =>
        IF caller \in SetterNames
        THEN /\ Len(log) = 1
             /\ log[1].op = "write"
             /\ pc = "facade_returned"
        ELSE /\ Len(log) = 1
             /\ log[1].op = "query"
             /\ WellFormed(log[1].data[1]) => (pc = "facade_returned" /\ returned = log[1].data[1])
             /\ ~WellFormed(log[1].data[1]) => pc = "facade_raised"

\* C11: when the identification reply does not contain the expected model
\* string, test_connection prints the warning and returns, the constructor of
\* SpectrumAnaFSEB20 completes, and the transport is open until
\* close_connection is called.
C11_IdentityMismatchNotFatal ==
    \A i \in 1..Len(log) :
        (IsQuery(log[i], "*IDN?") /\ ~Contains(IdnModel, log[i].data[1].suffix)) =>
            /\ pc \in {"sa_ready", "sa_closed"}
            /\ Len(log) >= i + 2
            /\ log[i + 2] = SayEv(ConnectionWarning)
            /\ (pc = "sa_ready") <=> ("transport" \notin closed)
            /\ \E j \in 1..(i - 1) : log[j].op = "open"

\* A driver constructed on a wrong identification has served a query
C11_Witness ==
    /\ pc = "sa_ready"
    /\ "transport" \notin closed
    /\ \E i \in 1..Len(log) :
          /\ IsQuery(log[i], "*IDN?")
          /\ log[i].data[1] = Word("HEWLETT-PACKARD,8566B,0,1")
          /\ \E j \in (i + 1)..Len(log) : log[j].op = "query"

SweepCmd == ":INITiate1:IMMediate"

RbwCmd == "SENSe:BANDwidth:RESolution"

WidthQuery == ":CALCulate1:MARKer1:FUNCtion:NDBDown:RESult?"

\* The cycle skipped on drift
DriftSkipped == Said(RampingMsg)

\* The cycle called coarse_center_on_beatnote
Reacquired == Said("Centering on freq counter beatnote value") \/ CoarseDone

\* The cycle called narrow_on_beatnote
Narrowed ==
    \/ Said("Zooming in")
    \/ \E i \in 1..Len(log) : IsWrite(log[i], "SENSe:BANDwidth:RESolution:RATio")

\* The cycle swept, read the width or published
Measured ==
    \E i \in 1..Len(log) :
        \/ IsWrite(log[i], SweepCmd)
        \/ IsQuery(log[i], WidthQuery)
        \/ log[i].op = "publish"

\* The cycle's checks, all passed and in order, before event k
ChecksPassedBefore(k) ==
    \E i \in 1..(k - 1) :
        /\ log[i].op = "feed"
        /\ log[i].data[1] = polls[2]
        /\ ~AbsDiffGt(last_bn_counter_freq, log[i].data[1], bn_compare_tol.milli)
        /\ \E j \in (i + 1)..(k - 1) :
              /\ IsQuery(log[j], CenterCmd \o "?")
              /\ CanFloat(log[j].data[1])
              /\ ~OffCenter(log[j].data[1], log[i].data[1])
              /\ \E sp \in (j + 1)..(k - 1) :
                    /\ IsQuery(log[sp], SpanCmd \o "?")
                    /\ CanFloat(log[sp].data[1])
                    /\ Within(log[sp].data[1], zoomed_freq_span)
                    /\ \E rb \in (sp + 1)..(k - 1) :
                          /\ IsQuery(log[rb], RbwCmd \o "?")
                          /\ CanFloat(log[rb].data[1])
                          /\ Within(log[rb].data[1], zoomed_rbw)

Count(b) == IF b THEN 1 ELSE 0

\* C12: a sweep, width read or publish happens in a poll cycle only after, in
\* that cycle and in this order, the drift check passed, the center was read
\* within bn_compare_tol of the reference and check_zoomed_in found span and
\* rbw on target; and a cycle does at most one of drift skip, coarse
\* re-acquisition, narrowing, steady-state measurement.
C12_MeasureOnlyAfterAllChecks ==
    /\ \A k \in 1..Len(log) :
          (\/ IsWrite(log[k], SweepCmd)
           \/ IsQuery(log[k], WidthQuery)
           \/ log[k].op = "publish")
              => (InPollCycle /\ ChecksPassedBefore(k))
    /\ InPollCycle =>
          Count(DriftSkipped) + Count(Reacquired) + Count(Narrowed) + Count(Measured) <= 1

\* A cycle has measured and published
C12_Witness ==
    /\ InPollCycle
    /\ pc = "loop"
    /\ \E k \in 1..Len(log) : IsQuery(log[k], WidthQuery)
    /\ \E k \in 1..Len(log) : log[k].op = "publish"

\* C13: a poll cycle skipped by the drift check is a frozen skip: it sends
\* the instrument no command and no query, publishes nothing, leaves
\* pub_last_time, the reference sampled at loop start, and the instrument's
\* settings as they were, and ends where the next cycle polls again.
C13_DriftSkipIsFrozen ==
    [][(pc = "loop" /\ DriftSkipped') =>
          /\ pc' = "loop"
          /\ Commands(log') = <<>>
          /\ \A i \in 1..Len(log') : log'[i].op # "publish"
          /\ \E i \in 1..Len(log') : log'[i].op = "feed"
          /\ UNCHANGED <<instr, pub_last_time, lastPubAt, pubGap, last_bn_counter_freq,
                         spans, closed>>]_vars

\* A cycle was skipped on drift after an earlier cycle had published
C13_Witness ==
    /\ InPollCycle
    /\ DriftSkipped
    /\ pc = "loop"
    /\ lastPubAt # -1

\* C14: with an analyzer that reports the span and rbw it was last commanded,
\* after a coarse re-acquisition made inside the polling loop there is no
\* sweep, width read or publish until narrow_on_beatnote has run to its end.
C14_NoMeasureBetweenCoarseAndNarrow == (exact /\ reacquired) => ~Measured

\* After a re-acquisition in the loop, a later cycle has found the analyzer
\* centered and is about to check the zoom
C14_Witness ==
    /\ exact
    /\ reacquired
    /\ InPollCycle
    /\ pc = "check_zoom"

\* A ramp step at event i: the span is commanded, one sweep is waited for,
\* the peak is located and the center is commanded to it
RampStepAt(i) ==
    /\ i + 7 <= Len(log)
    /\ IsWrite(log[i], SpanCmd)
    /\ IsQuery(log[i + 1], SweepTimeQuery)
    /\ log[i + 2].op = "sleep"
    /\ IsQuery(log[i + 6], MarkerFreqQuery)
    /\ IsWrite(log[i + 7], CenterCmd)

\* C15 (as claimed): narrow_on_beatnote makes at least one ramp step for
\* every current span that is greater than or equal to the target span.
C15_AtLeastOneRampStep ==
    (NarrowReturned /\ Leq(zoomed_freq_span, ReportedSpan))
        => \E i \in 1..Len(log) : RampStepAt(i)

RatioCmds == {"SENSe:BANDwidth:RESolution:RATio", "SENSe:BANDwidth:RESolution:AUTO"}

\* A command that changes what the analyzer sweeps
Resweeps(e) == e.op = "write" /\ e.cmd \in RatioCmds \cup {SpanCmd}

\* The span command at i is the forced final one of lines 156-157
ForcedFinal(i) == i > 1 /\ IsWrite(log[i - 1], RbwCmd) /\ log[i] = WriteEv(SpanCmd, Str(zoomed_freq_span))

\* C16: in narrow_on_beatnote every peak-locate comes after a sweep wait that
\* follows the most recent span or ratio command, and every ramp span
\* commanded is followed, before the next span command, by a sweep wait, a
\* peak-locate and a center command that carries the peak just located.
C16_RampStepOrder ==
    /\ \A i \in 1..Len(log) :
          IsQuery(log[i], MarkerFreqQuery) =>
              \E w \in 2..(i - 1) :
                  /\ log[w].op = "sleep" /\ log[w].cmd = "sweep"
                  /\ IsQuery(log[w - 1], SweepTimeQuery)
                  /\ \A k \in w..(i - 1) : ~Resweeps(log[k])
                  /\ \E k \in 1..(w - 1) : Resweeps(log[k])
    /\ \A i \in 1..Len(log) :
          (IsWrite(log[i], SpanCmd) /\ ~ForcedFinal(i)) =>
              /\ RampStepAt(i)
              /\ log[i + 7].data = log[i + 6].data
              /\ \A k \in (i + 1)..(i + 7) : ~IsWrite(log[k], SpanCmd)
              /\ i > 1 /\ log[i - 1] = SleepEv("ramp", RampPause)

\* narrow_on_beatnote has returned after a ramp of two or more steps
C16_Witness ==
    /\ NarrowReturned
    /\ \E i, j \in 1..Len(log) : i < j /\ RampStepAt(i) /\ RampStepAt(j)

\* C17 (as claimed): a malformed reply to a query of a poll cycle is never
\* passed on: no later command of the cycle carries it as its argument and
\* no published tuple contains it.
C17_MalformedReplyNotPassedOn ==
    \A i \in 1..Len(log) :
        (InPollCycle /\ log[i].op = "query" /\ ~CanFloat(log[i].data[1])) =>
            \A j \in (i + 1)..Len(log) :
                /\ log[j].op = "write" => log[j].data[1] # log[i].data[1]
                /\ log[j].op = "publish" =>
                      \A k \in 1..Len(log[j].data) : log[j].data[k] # log[i].data[1]

\* The reply to the latest query cmd made before event k
LastReply(cmd, k) ==
    log[CHOOSE i \in 1..(k - 1) :
            /\ IsQuery(log[i], cmd)
            /\ \A j \in (i + 1)..(k - 1) : ~IsQuery(log[j], cmd)].data[1]

\* C18: emission is skipped, not queued: every published tuple is the rbw,
\* peak frequency and 3 dB width read in the poll cycle that publishes it,
\* after that cycle's sweep, and a cycle publishes at most once.
C18_PublishesOwnCycleOnce ==
    \A k \in 1..Len(log) :
        log[k].op = "publish" =>
            /\ InPollCycle
            /\ \E sw \in 1..(k - 1) :
                  /\ IsWrite(log[sw], SweepCmd)
                  /\ \E a, b, c \in (sw + 1)..(k - 1) :
                        /\ a < b /\ b < c
                        /\ IsQuery(log[a], MarkerFreqQuery)
                        /\ IsQuery(log[b], WidthQuery)
                        /\ IsQuery(log[c], RbwCmd \o "?")
                        /\ log[k].data = <<log[c].data[1], log[a].data[1], log[b].data[1]>>
            /\ log[k].data = <<LastReply(RbwCmd \o "?", k), LastReply(MarkerFreqQuery, k),
                               LastReply(WidthQuery, k)>>
            /\ \A j \in 1..Len(log) : log[j].op = "publish" => j = k

\* A cycle has published an rbw that differs from the one its zoom check read
C18_Witness ==
    /\ InPollCycle
    /\ \E k \in 1..Len(log) :
          /\ log[k].op = "publish"
          /\ \E i \in 1..(k - 1) :
                IsQuery(log[i], RbwCmd \o "?") /\ log[i].data[1] # log[k].data[1]

\* The reference sampled at loop start, and where it moves to
RefStart == Num(100, 0)

RefMoved == Num(100, 100)

\* Every read of the feed in the log gave v
FeedsAre(v) == \A i \in 1..Len(log) : log[i].op = "feed" => log[i].data[1] = v

Published == \E i \in 1..Len(log) : log[i].op = "publish"

\* The reference has moved away from the value sampled at loop start and the
\* cycle polled it there
MovedAway ==
    /\ last_bn_counter_freq = RefStart
    /\ Drifted(RefStart, RefMoved)
    /\ InPollCycle
    /\ bn_counter_freq = RefMoved
    /\ FeedsAre(RefMoved)

\* C19 (as claimed): if the reference moves more than bn_compare_tol away from
\* the value sampled at loop start and then stays there forever, the analyzer
\* answering well-formed and finding the peak at the reference, then the
\* monitor eventually measures and publishes with the reference there.
C19_LockLossIsTransient ==
    (<>[]MovedAway) => <>(MovedAway /\ ~DriftSkipped /\ Measured /\ Published)

\* A cycle has measured
SteadyState == InPollCycle /\ Measured

\* Neither coarse_center_on_beatnote nor narrow_on_beatnote is running or called
NotReacquiring == pc \notin {"coarse", "narrow_start", "narrow_ramp"} /\ ~Reacquired /\ ~Narrowed

\* C20: under a constant reference, with an analyzer that stores what it is
\* commanded and finds the peak within bn_compare_tol of the reference,
\* start_loop(restart=True) eventually measures and publishes, and from its
\* first steady-state cycle on it never calls coarse_center_on_beatnote or
\* narrow_on_beatnote again.
C20_RestartReachesSteadyState ==
    \A v \in RefVals :
        ([]FeedsAre(v) /\ <>(caller = "start"))
            => (<>(SteadyState /\ Published) /\ [](SteadyState => []NotReacquiring))

\* After start_loop(restart=True) a cycle has measured and published
C20_Witness ==
    /\ caller = "start"
    /\ SteadyState
    /\ Published
    /\ FeedsAre(RefStart)
    /\ last_bn_counter_freq = RefStart
    /\ instr.span = Str(zoomed_freq_span)
    /\ instr.rbw = Str(zoomed_rbw)

====
